---- MODULE Spec2Model ----
(***************************************************************************)
(* Model of the helpdesk ticket service in src/app.py: a Flask application *)
(* with an API-key gate (before_request), a login endpoint issuing an      *)
(* api_key cookie, and CRUD handlers over the table dbo.tickets.           *)
(*                                                                         *)
(* Text is modelled as a sequence of tokens; the token "SP" is one         *)
(* whitespace character, every other token is a run of non-whitespace      *)
(* characters.  "In Progress" is <<"In", "SP", "Progress">>.               *)
(***************************************************************************)
EXTENDS Integers, Sequences, FiniteSets, TLC

\* Number of INSERTs the model lets the table see (caps the IDENTITY counter).
MaxTickets == 2

VARIABLES
    API_KEY,    \* module global API_KEY (src/app.py:16), fixed at start-up
    tickets,    \* rows of dbo.tickets
    identity,   \* last value handed out by the IDENTITY(1,1) column
    now,        \* SYSUTCDATETIME()
    jar,        \* api_key cookies that login responses have set
    deleted,    \* ids whose DELETE answered 200
    request,    \* the last request served
    response,   \* its response
    before      \* dbo.tickets as it was when that request arrived

vars == <<API_KEY, tickets, identity, now, jar, deleted, request, response, before>>

----------------------------------------------------------------------------
\* Text

SP == "SP"

RECURSIVE lstrip(_)
lstrip(s) == IF s # <<>> /\ Head(s) = SP THEN lstrip(Tail(s)) ELSE s

RECURSIVE rstrip(_)
rstrip(s) ==
    IF s # <<>> /\ s[Len(s)] = SP THEN rstrip(SubSeq(s, 1, Len(s) - 1)) ELSE s

\* str.strip() with no argument: drops leading and trailing whitespace only.
strip(s) == rstrip(lstrip(s))

\* A run of 256 non-whitespace characters.
Long == "x256"

\* Number of characters of a token.
TokenLen(t) ==
    CASE t = Long -> 256
      [] t = "Progress" -> 8
      [] t = "Pending" -> 7
      [] t = "Closed" -> 6
      [] t \in {"Open", "open"} -> 4
      [] t = "In" -> 2
      [] OTHER -> 1

RECURSIVE TextLen(_)
TextLen(s) == IF s = <<>> THEN 0 ELSE TokenLen(Head(s)) + TextLen(Tail(s))

\* title NVARCHAR(255)
TitleMax == 255

Open == <<"Open">>
InProgress == <<"In", SP, "Progress">>
Closed == <<"Closed">>

\* The set literal of update_ticket.
AllowedStatus == {Open, InProgress, Closed}

----------------------------------------------------------------------------
\* Optional strings (a header or cookie that may be absent)

None == [some |-> FALSE, v |-> <<>>]
Some(s) == [some |-> TRUE, v |-> s]

\* Python truthiness of an optional string: None and "" are falsy.
Truthy(o) == o.some /\ o.v # <<>>

----------------------------------------------------------------------------
\* JSON values of a request body field, by what Python does with them:
\*   missing  key absent (dict.get answers None)
\*   null     JSON null
\*   str      JSON string
\*   falsy    a non-string that is falsy in Python: 0, false, [], {}
\*   truthy   a non-string that is truthy in Python: 5, true, [1], {"a": 1}

JMissing == [t |-> "missing", v |-> <<>>]
JNull == [t |-> "null", v |-> <<>>]
JStr(s) == [t |-> "str", v |-> s]
JFalsy == [t |-> "falsy", v |-> <<>>]
JTruthy == [t |-> "truthy", v |-> <<>>]

\* Request bodies, by what request.get_json(silent=True) answers:
\*   none    None: no body, not JSON, or wrong content type
\*   object  a JSON object with the fields below
\*   falsy   a JSON document that is falsy and no object: null, 0, "", []
\*   other   a JSON document that is truthy and no object: [1], 5, "x"
Body(kind, title, description, status, api_key) ==
    [kind |-> kind, title |-> title, description |-> description,
     status |-> status, api_key |-> api_key]

NoBody == Body("none", JMissing, JMissing, JMissing, JMissing)
EmptyObject == Body("object", JMissing, JMissing, JMissing, JMissing)
FalsyBody == Body("falsy", JMissing, JMissing, JMissing, JMissing)
OtherBody == Body("other", JMissing, JMissing, JMissing, JMissing)

\* `request.get_json(silent=True) or {}` followed by `.get`: the dict the
\* handler reads, or an AttributeError when the document has no .get.
get_json_or_empty(body) ==
    IF body.kind \in {"none", "falsy"} THEN [ok |-> TRUE, data |-> EmptyObject]
    ELSE IF body.kind = "object" THEN [ok |-> TRUE, data |-> body]
    ELSE [ok |-> FALSE, data |-> EmptyObject]

\* `(data.get(k) or "").strip()` applied to the field value j: the stripped
\* text, or an AttributeError when `j or ""` is not a string.
get_stripped(j) ==
    IF j.t \in {"missing", "null", "falsy"} THEN [ok |-> TRUE, v |-> <<>>]
    ELSE IF j.t = "str" THEN [ok |-> TRUE, v |-> strip(j.v)]
    ELSE [ok |-> FALSE, v |-> <<>>]

----------------------------------------------------------------------------
\* Paths, as the sequence of their segments: "/" is <<>>.

TicketsPath == <<"tickets">>
TicketPath(id) == <<"tickets", id>>
LoginPath == <<"login">>

PUBLIC_PATHS ==
    {<<>>, <<"ui">>, <<"login">>, <<"health">>, <<"openapi.json">>, <<"docs">>}

\* request.path.startswith("/static/")
IsStatic(path) == Len(path) >= 2 /\ path[1] = "static"

IsTicketPath(path) == Len(path) >= 1 /\ path[1] = "tickets"

----------------------------------------------------------------------------
\* Auth gate

\* Variant: `if key and key != API_KEY`, which lets a request without any
\* key through.
require_key_if_present(path, hdr, cookie) ==
    IF API_KEY = <<>> THEN FALSE
    ELSE IF path \in PUBLIC_PATHS \/ IsStatic(path) THEN FALSE
    ELSE LET key == IF Truthy(hdr) THEN hdr ELSE cookie
         IN  Truthy(key) /\ key.v # API_KEY

\* TRUE when require_key answers 401 for the request.
require_key(path, hdr, cookie) ==
    IF API_KEY = <<>> THEN FALSE
    ELSE IF path \in PUBLIC_PATHS \/ IsStatic(path) THEN FALSE
    ELSE LET key == IF Truthy(hdr) THEN hdr ELSE cookie
         IN  ~(key.some /\ key.v = API_KEY)

----------------------------------------------------------------------------
\* Results of a handler

NoCookie == None

Result(code, rows, ident, cookie, data) ==
    [code |-> code, tickets |-> rows, identity |-> ident,
     set_cookie |-> cookie, data |-> data]

\* A response that touches neither the table nor the cookies.
Plain(code) == Result(code, tickets, identity, NoCookie, <<>>)

Ids(rows) == {r.id : r \in rows}

----------------------------------------------------------------------------
\* Table dbo.tickets

\* Variant: the INSERT also writes the status the body carries.
insert_status_from_body(data) ==
    IF data.status.t = "str" THEN strip(data.status.v) ELSE Open

\* The status of a row inserted for the request data: post_ticket's INSERT
\* names only title and description, so the column DEFAULT applies.
insert_status(data) == Open

\* Variant: ids computed as MAX(id) + 1, so the id of a deleted last row is
\* handed out again.
next_identity_reuse(rows, ident) ==
    IF rows = {} THEN 1
    ELSE (CHOOSE m \in Ids(rows) : \A i \in Ids(rows) : i <= m) + 1

\* IDENTITY(1,1): one more than the last value handed out, whatever rows remain.
next_identity(rows, ident) == ident + 1

\* Whether the INSERT accepts the title: a value longer than the column is
\* refused by the engine (string would be truncated), the transaction rolls
\* back and the request ends in a 500.  An INSERT that fails may or may not
\* have consumed an IDENTITY value.
fits_title(title) == TextLen(title) <= TitleMax

\* A row of dbo.tickets.
Row(id, title, description, status, created_at) ==
    [id |-> id, title |-> title, description |-> description,
     status |-> status, created_at |-> created_at]

\* Variant: any non-empty status is accepted.
status_allowed_nonempty(status) == status # <<>>

\* `status not in {"Open", "In Progress", "Closed"}`, negated.
status_allowed(status) == status \in AllowedStatus

\* The rows a `WHERE id = :id` clause selects; res.rowcount is their number.
where_id(rows, id) == {r \in rows : r.id = id}

\* Variant: the UPDATE without its WHERE clause.
update_set_all(rows, id, status) ==
    {[r EXCEPT !.status = status] : r \in rows}

\* UPDATE dbo.tickets SET status = :s WHERE id = :id
update_set_status(rows, id, status) ==
    (rows \ where_id(rows, id))
        \cup {[r EXCEPT !.status = status] : r \in where_id(rows, id)}

\* Variant: a rowcount that counts only rows whose value changed.
rowcount_changed(rows, id, status) ==
    Cardinality({r \in rows : r.id = id /\ r.status # status})

\* res.rowcount of the UPDATE: SQL Server counts every row the WHERE clause
\* matches, whether or not the value changes.
rowcount_update(rows, id, status) == Cardinality(where_id(rows, id))

\* Variant: the rowcount is never looked at.
found_always(n) == TRUE

\* `res.rowcount == 0` answers 404; found is its negation.
found(n) == n # 0

RECURSIVE Orderings(_)
Orderings(rows) ==
    IF rows = {} THEN {<<>>}
    ELSE UNION {{<<r>> \o s : s \in Orderings(rows \ {r})} : r \in rows}

\* ORDER BY created_at DESC: every ordering of the rows that is newest first
\* (the order of rows with equal created_at is the engine's choice).
order_by_created_at_desc(rows) ==
    {s \in Orderings(rows) :
        \A i, j \in 1..Len(s) : i < j => s[i].created_at >= s[j].created_at}

----------------------------------------------------------------------------
\* Handlers: the set of results a handler can produce in the current state.

page_h == {Plain(200)}

\* send_from_directory for a file under static/: served, or not there.
static_h == {Plain(200), Plain(404)}

login_h(body) ==
    LET d == get_json_or_empty(body)
        k == get_stripped(d.data.api_key)
    IN  IF ~d.ok \/ ~k.ok THEN {Plain(500)}
        ELSE IF API_KEY = <<>> THEN {Plain(200)}
        ELSE IF k.v # API_KEY THEN {Plain(401)}
        ELSE {Result(200, tickets, identity, Some(k.v), <<>>)}

get_tickets_h ==
    {Result(200, tickets, identity, NoCookie, s) :
        s \in order_by_created_at_desc(tickets)}

get_ticket_h(id) ==
    LET row == where_id(tickets, id)
    IN  IF row = {} THEN {Plain(404)}
        ELSE {Result(200, tickets, identity, NoCookie, <<r>>) : r \in row}

post_ticket_h(body) ==
    LET d == get_json_or_empty(body)
        title == get_stripped(d.data.title)
        description == get_stripped(d.data.description)
        id == next_identity(tickets, identity)
    IN  IF ~d.ok \/ ~title.ok \/ ~description.ok THEN {Plain(500)}
        ELSE IF title.v = <<>> \/ description.v = <<>> THEN {Plain(400)}
        ELSE IF ~fits_title(title.v)
             THEN {Result(500, tickets, i, NoCookie, <<>>) : i \in {identity, id}}
        ELSE {Result(201,
                     tickets \cup {Row(id, title.v, description.v,
                                       insert_status(d.data), now)},
                     id, NoCookie, <<>>)}

update_ticket_h(id, body) ==
    LET d == get_json_or_empty(body)
        status == get_stripped(d.data.status)
    IN  IF ~d.ok \/ ~status.ok THEN {Plain(500)}
        ELSE IF ~status_allowed(status.v) THEN {Plain(400)}
        ELSE IF ~found(rowcount_update(tickets, id, status.v)) THEN {Plain(404)}
        ELSE {Result(200, update_set_status(tickets, id, status.v),
                     identity, NoCookie, <<>>)}

delete_ticket_h(id) ==
    IF ~found(Cardinality(where_id(tickets, id))) THEN {Plain(404)}
    ELSE {Result(200, tickets \ where_id(tickets, id), identity, NoCookie, <<>>)}

----------------------------------------------------------------------------
\* Inputs

\* The secret the deployment configures.
Key == <<"k">>
Wrong == <<"z">>

\* Values of the API_KEY environment variable (None: not set).
EnvKeys == {None, Some(<<SP>>), Some(<<SP, "k", SP>>)}

Headers == {None, Some(<<>>), Some(Key), Some(Wrong)}
Cookies == {None, Some(Key), Some(Wrong)} \cup {Some(c) : c \in jar}

\* The X-API-KEY header and api_key cookie a request carries.  Every pair is
\* tried with one body of each endpoint; the other bodies travel with the
\* configured key in the header (the gate never reads the body, and no
\* handler reads the header or the cookie).
Creds(every) ==
    IF every THEN Headers \X Cookies ELSE {<<Some(Key), None>>}

\* <int:ticket_id> matches the non-negative integers.
TicketIds == 0..(MaxTickets + 1)

Pending == <<"Pending">>
TitleA == <<SP, "a", SP, "b", SP>>
DescD == <<"d", SP>>

\* Bodies sent to POST /tickets.
PostBodies ==
    {NoBody, FalsyBody, OtherBody}
    \cup {Body("object", t, JStr(DescD), JMissing, JMissing) :
            t \in {JMissing, JNull, JStr(<<>>), JStr(<<SP>>), JStr(TitleA),
                   JFalsy, JTruthy}}
    \cup {Body("object", JStr(TitleA), d, JMissing, JMissing) :
            d \in {JMissing, JNull, JStr(<<SP, SP>>), JFalsy, JTruthy}}
    \cup {Body("object", JMissing, JTruthy, JMissing, JMissing),
          Body("object", JTruthy, JMissing, JMissing, JMissing)}
    \cup {Body("object", t, JStr(DescD), s, JMissing) :
            t \in {JStr(TitleA), JStr(<<SP>>)},
            s \in {JStr(Pending), JStr(Closed)}}
    \cup {Body("object", JStr(<<Long>>), JStr(DescD), s, JMissing) :
            s \in {JMissing, JStr(Pending)}}

\* Bodies sent to PATCH /tickets/<id>.
PatchBodies ==
    {NoBody, FalsyBody, OtherBody}
    \cup {Body("object", JMissing, JMissing, s, JMissing) :
            s \in {JMissing, JNull, JFalsy, JTruthy, JStr(<<>>), JStr(Pending),
                   JStr(<<"open">>), JStr(Open), JStr(<<SP, "Closed", SP>>),
                   JStr(InProgress), JStr(<<"In", SP, SP, "Progress">>)}}
    \cup {Body("object", JStr(TitleA), JMissing, JMissing, JMissing)}

\* Bodies sent to POST /login.
LoginBodies ==
    {NoBody, OtherBody}
    \cup {Body("object", JMissing, JMissing, JMissing, k) :
            k \in {JMissing, JTruthy, JStr(Key), JStr(<<SP, "k">>), JStr(Wrong)}}

PagePaths == {<<>>, <<"ui">>, <<"health">>, <<"openapi.json">>, <<"docs">>}

----------------------------------------------------------------------------
\* Serving one request: before_request (require_key), then the handler.
\* The worker serves one request at a time.

Idle == request.method = "NONE"

NoRequest ==
    [method |-> "NONE", path |-> <<>>, body |-> NoBody, hdr |-> None,
     cookie |-> None]

NoResponse ==
    [code |-> 0, ran |-> FALSE, set_cookie |-> NoCookie, data |-> <<>>]

Serve(method, path, body, cred, outs) ==
    /\ Idle
    /\ request' = [method |-> method, path |-> path, body |-> body,
                   hdr |-> cred[1], cookie |-> cred[2]]
    /\ before' = tickets
    /\ IF require_key(path, cred[1], cred[2])
       THEN /\ response' = [code |-> 401, ran |-> FALSE,
                            set_cookie |-> NoCookie, data |-> <<>>]
            /\ UNCHANGED <<tickets, identity, jar, deleted>>
       ELSE \E r \in outs :
            /\ response' = [code |-> r.code, ran |-> TRUE,
                            set_cookie |-> r.set_cookie, data |-> r.data]
            /\ tickets' = r.tickets
            /\ identity' = r.identity
            /\ jar' = IF r.set_cookie.some THEN jar \cup {r.set_cookie.v} ELSE jar
            /\ deleted' = deleted \cup (Ids(tickets) \ Ids(r.tickets))
    /\ UNCHANGED <<API_KEY, now>>

Init ==
    /\ \E e \in EnvKeys : API_KEY = strip(e.v)
    /\ tickets = {}
    /\ identity = 0
    /\ now = 0
    /\ jar = {}
    /\ deleted = {}
    /\ request = NoRequest
    /\ response = NoResponse
    /\ before = {}

\* GET /, /ui, /health, /openapi.json, /docs
page ==
    \E path \in PagePaths :
        \E cred \in Creds(path = <<"health">>) :
            Serve("GET", path, NoBody, cred, page_h)

\* GET /static/<file>
static ==
    \E cred \in Creds(TRUE) :
        Serve("GET", <<"static", "app.js">>, NoBody, cred, static_h)

login ==
    \E body \in LoginBodies :
        \E cred \in Creds(body.api_key = JStr(Key)) :
            Serve("POST", LoginPath, body, cred, login_h(body))

get_tickets ==
    \E cred \in Creds(TRUE) :
        Serve("GET", TicketsPath, NoBody, cred, get_tickets_h)

get_ticket ==
    \E id \in TicketIds :
        \E cred \in Creds(id = 1) :
            Serve("GET", TicketPath(id), NoBody, cred, get_ticket_h(id))

post_ticket ==
    /\ identity < MaxTickets
    /\ \E body \in PostBodies :
        \E cred \in Creds(body.title = JStr(TitleA) /\ body.description = JStr(DescD)) :
            Serve("POST", TicketsPath, body, cred, post_ticket_h(body))

update_ticket ==
    \E id \in TicketIds, body \in PatchBodies :
        \E cred \in Creds(id = 1 /\ body.status \in {JStr(InProgress), JMissing}) :
            Serve("PATCH", TicketPath(id), body, cred, update_ticket_h(id, body))

delete_ticket ==
    \E id \in TicketIds :
        \E cred \in Creds(id = 1) :
            Serve("DELETE", TicketPath(id), NoBody, cred, delete_ticket_h(id))

\* The response has been sent and the request context is popped.
teardown ==
    /\ ~Idle
    /\ request' = NoRequest
    /\ response' = NoResponse
    /\ before' = tickets
    /\ UNCHANGED <<API_KEY, tickets, identity, now, jar, deleted>>

\* Time passes between requests.  Only an INSERT reads the clock, so a tick
\* is taken only when an insert has happened since the tick before it.
Tick ==
    /\ Idle
    /\ now < identity
    /\ now' = now + 1
    /\ UNCHANGED <<API_KEY, tickets, identity, jar, deleted, request, response, before>>

Next ==
    \/ page
    \/ static
    \/ login
    \/ get_tickets
    \/ get_ticket
    \/ post_ticket
    \/ update_ticket
    \/ delete_ticket
    \/ teardown
    \/ Tick

Spec == Init /\ [][Next]_vars

----------------------------------------------------------------------------
\* Properties.  They speak of the request just served (request, response)
\* and of the table before it (before) and after it (tickets).

Served == ~Idle
PostTickets == request.method = "POST" /\ request.path = TicketsPath
OnTicket(method) ==
    request.method = method /\ Len(request.path) = 2 /\ request.path[1] = "tickets"
ReqId == request.path[2]
PostLogin == request.method = "POST" /\ request.path = LoginPath

\* A field that is missing, null, or empty after trimming whitespace.
Blank(j) == j.t \in {"missing", "null"} \/ (j.t = "str" /\ strip(j.v) = <<>>)

\* A field that is a string with something left after trimming.
NonBlankText(j) == j.t = "str" /\ strip(j.v) # <<>>

\* A body whose status field is present and not one of the allowed values.
CarriesUnknownStatus(body) ==
    /\ body.kind = "object"
    /\ body.status.t # "missing"
    /\ ~(body.status.t = "str" /\ strip(body.status.v) \in AllowedStatus)

\* A body that supplies the status key with an allowed value.
CarriesAllowedStatus(body) ==
    /\ body.kind = "object"
    /\ body.status.t = "str"
    /\ strip(body.status.v) \in AllowedStatus

\* A body that supplies no status key at all.
NoRecognizedField(body) == body.kind # "object" \/ body.status.t = "missing"

\* C1: every stored ticket row has a status in {Open, In Progress, Closed}.
C1_StatusAlwaysAllowed == \A r \in tickets : r.status \in AllowedStatus

\* A PATCH carrying a status outside the set was refused on a ticket that an
\* earlier PATCH had moved away from the default.
C1_Witness ==
    /\ OnTicket("PATCH") /\ response.ran
    /\ CarriesUnknownStatus(request.body)
    /\ \E r \in tickets : r.id = ReqId /\ r.status = Closed

\* C2: POST /tickets whose title or description is missing, null or empty
\* after trimming answers 400 whatever else the body carries, and leaves the
\* tickets table as it was.
C2_BlankTitleOrDescriptionAnswers400 ==
    (PostTickets /\ response.ran
        /\ (Blank(request.body.title) \/ Blank(request.body.description)))
    => (response.code = 400 /\ tickets = before)

\* C3 as stated: POST /tickets with a status outside the allowed set (title
\* and description non-empty) is answered with an error and writes no row.
C3_UnknownStatusRejected ==
    (PostTickets /\ response.ran
        /\ NonBlankText(request.body.title)
        /\ NonBlankText(request.body.description)
        /\ CarriesUnknownStatus(request.body))
    => (response.code >= 400 /\ Cardinality(tickets) = Cardinality(before))

\* C3 amended: POST /tickets with a status outside the allowed set (title and
\* description strings that are non-empty after trimming, the title within
\* the 255 characters of its column) is not rejected: the status in the body
\* is ignored, the answer is 201, and exactly one row is written, with a
\* fresh id, the trimmed title and description, and status Open.
C3_UnknownStatusIgnored ==
    (PostTickets /\ response.ran
        /\ NonBlankText(request.body.title)
        /\ TextLen(strip(request.body.title.v)) <= TitleMax
        /\ NonBlankText(request.body.description)
        /\ CarriesUnknownStatus(request.body))
    => /\ response.code = 201
       /\ \E r \in tickets :
            /\ r.id \notin Ids(before)
            /\ tickets = before \cup {r}
            /\ r.title = strip(request.body.title.v)
            /\ r.description = strip(request.body.description.v)
            /\ r.status = Open

\* A ticket was created from a body carrying the status "Pending".
C3_Witness ==
    /\ PostTickets /\ response.code = 201
    /\ request.body.status = JStr(Pending)
    /\ Cardinality(tickets) = Cardinality(before) + 1

\* C4: PATCH on an existing ticket whose body supplies no recognized field
\* answers 400 and leaves every row unchanged.
C4_NoRecognizedFieldAnswers400 ==
    (OnTicket("PATCH") /\ response.ran
        /\ ReqId \in Ids(before)
        /\ NoRecognizedField(request.body))
    => (response.code = 400 /\ tickets = before)

\* C5 as stated: for an id that matches no row, every PATCH and every DELETE
\* answers 404 and leaves the table unchanged.
C5_MissingIdAlways404 ==
    ((OnTicket("PATCH") \/ OnTicket("DELETE")) /\ response.ran
        /\ ReqId \notin Ids(before))
    => (response.code = 404 /\ tickets = before)

\* C5 amended: for an id that matches no row, every DELETE and every PATCH
\* whose body carries an allowed status answers 404; a PATCH whose body
\* carries no allowed status is refused by validation before the lookup, with
\* an error that is not 404; in every case the table is unchanged.
C5_MissingId404AfterValidation ==
    ((OnTicket("PATCH") \/ OnTicket("DELETE")) /\ response.ran
        /\ ReqId \notin Ids(before))
    => /\ tickets = before
       /\ OnTicket("DELETE") => response.code = 404
       /\ (OnTicket("PATCH") /\ CarriesAllowedStatus(request.body))
            => response.code = 404
       /\ (OnTicket("PATCH") /\ ~CarriesAllowedStatus(request.body))
            => response.code \in {400, 500}

\* A PATCH with an allowed status reached an id whose row had been deleted,
\* while another row was there.
C5_Witness ==
    /\ OnTicket("PATCH") /\ response.ran
    /\ CarriesAllowedStatus(request.body)
    /\ ReqId \in deleted /\ ReqId \notin Ids(before)
    /\ before # {}
    /\ response.code = 404

\* The key a request supplies: the X-API-KEY header, or the api_key cookie
\* when the header is absent or empty.
SuppliedKey == IF request.hdr.some /\ request.hdr.v # <<>> THEN request.hdr
               ELSE request.cookie

\* C6: with the API key unset no request is answered 401; with it set, every
\* request to /tickets or /tickets/<id> whose supplied key is missing or
\* differs from the configured key is answered 401 without the handler
\* running: no row is read, written or deleted.
C6_AuthGate ==
    /\ (API_KEY = <<>> /\ Served) => (response.code # 401 /\ response.ran)
    /\ (API_KEY # <<>> /\ Served /\ IsTicketPath(request.path)
            /\ (~SuppliedKey.some \/ SuppliedKey.v # API_KEY))
        => /\ response.code = 401
           /\ ~response.ran
           /\ response.data = <<>>
           /\ tickets = before

\* A DELETE of an existing ticket that carried no key was turned away.
C6_Witness ==
    /\ API_KEY # <<>>
    /\ OnTicket("DELETE")
    /\ ReqId \in Ids(tickets)
    /\ ~request.hdr.some /\ ~request.cookie.some
    /\ response.code = 401

\* C7: a successful PATCH changes only the status column of the row with
\* that id: its id, title, description and created_at keep their values and
\* every other row is unchanged.
C7_UpdateChangesOnlyStatus ==
    (OnTicket("PATCH") /\ response.code = 200)
    => \E old \in before, new \in tickets :
        /\ old.id = ReqId
        /\ new.id = old.id
        /\ new.title = old.title
        /\ new.description = old.description
        /\ new.created_at = old.created_at
        /\ tickets \ {new} = before \ {old}

\* A successful PATCH changed the status of one of two rows.
C7_Witness ==
    /\ OnTicket("PATCH") /\ response.code = 200
    /\ Cardinality(before) = 2
    /\ tickets # before

\* C8: for an existing ticket in any status, a PATCH with any allowed status
\* (the current one included) answers 200 and leaves the ticket with that
\* status.
C8_AnyTransitionAllowed ==
    (OnTicket("PATCH") /\ response.ran
        /\ ReqId \in Ids(before)
        /\ CarriesAllowedStatus(request.body))
    => /\ response.code = 200
       /\ \E r \in tickets :
            r.id = ReqId /\ r.status = strip(request.body.status.v)

\* A closed ticket was reopened.
C8_Witness ==
    /\ OnTicket("PATCH") /\ response.code = 200
    /\ \E old \in before : old.id = ReqId /\ old.status = Closed
    /\ \E new \in tickets : new.id = ReqId /\ new.status = Open

\* The submitted api_key equals the configured key after trimming.
SubmitsKey(body) ==
    /\ body.kind = "object"
    /\ body.api_key.t = "str"
    /\ strip(body.api_key.v) = API_KEY

\* C9: with the API key set, POST /login sets the api_key cookie only if the
\* submitted api_key, trimmed, equals the configured key, and otherwise
\* answers 401 and sets no cookie; every cookie login issued is accepted by
\* the gate on the ticket endpoints when sent without an X-API-KEY header.
C9_LoginCookie ==
    /\ (API_KEY # <<>> /\ PostLogin)
        => /\ response.set_cookie.some => SubmitsKey(request.body)
           /\ ~SubmitsKey(request.body)
                => (response.code = 401 /\ ~response.set_cookie.some)
    /\ (API_KEY # <<>> /\ Served /\ IsTicketPath(request.path)
            /\ ~request.hdr.some /\ request.cookie.some
            /\ request.cookie.v \in jar)
        => response.ran

\* C10: once a DELETE of an id has answered 200, GET, PATCH with an allowed
\* status and DELETE on that id all answer 404 ever after, and no ticket
\* created later receives that id.
C10_DeletedIdsStayGone ==
    /\ deleted \cap Ids(tickets) = {}
    /\ (Served /\ response.ran /\ Len(request.path) = 2
            /\ request.path[1] = "tickets"
            /\ ReqId \in deleted /\ ReqId \notin Ids(before))
        => /\ OnTicket("GET") => response.code = 404
           /\ OnTicket("DELETE") => response.code = 404
           /\ (OnTicket("PATCH") /\ CarriesAllowedStatus(request.body))
                => response.code = 404

\* A GET of a deleted id answered 404 after a later ticket had been created.
C10_Witness ==
    /\ OnTicket("GET") /\ response.code = 404
    /\ ReqId \in deleted
    /\ \E r \in tickets : r.id > ReqId

====
